---------------------------- MODULE Spec2Model ----------------------------
(***************************************************************************)
(* Gesture particles: the feature extractor (services/gestureService.ts),  *)
(* the detector callback of App (types.ts) and the particle scene          *)
(* (components/HandParticleScene.tsx) as one state machine.                *)
(*                                                                         *)
(* Numbers.  Every JavaScript number is a fixed-point integer, ONE units   *)
(* to 1.0.  ONE is divisible by 2, 3 and 1000, so that the program's       *)
(* constants (0.001, 0.002, 0.15, 0.4, 0.05, 0.5, 1/3 ...) are exact.      *)
(* Results that are not multiples of 1/ONE (a square root, a lerp) are     *)
(* rounded to the nearest unit the way a float is rounded to the nearest   *)
(* float; effects below that resolution are outside this model.            *)
(***************************************************************************)
EXTENDS Integers, Sequences, FiniteSets, TLC

ONE == 2 * 3 * 1000

\* An optional value (null | v) is a sequence of length 0 or 1.
None == << >>
Some(v) == << v >>
IsSome(o) == Len(o) = 1
Val(o) == o[1]

Min(a, b) == IF a < b THEN a ELSE b
Max(a, b) == IF a > b THEN a ELSE b
Abs(a) == IF a < 0 THEN -a ELSE a

\* a / b rounded to the nearest integer (b > 0), halves away from zero.
RoundDiv(a, b) == IF a >= 0 THEN (2 * a + b) \div (2 * b)
                            ELSE -((2 * (-a) + b) \div (2 * b))

(***************************************************************************)
(* services/gestureService.ts                                              *)
(***************************************************************************)
WRIST == 0
THUMB_CMC == 1
THUMB_MCP == 2
THUMB_IP == 3
THUMB_TIP == 4
INDEX_FINGER_MCP == 5
INDEX_FINGER_PIP == 6
INDEX_FINGER_DIP == 7
INDEX_FINGER_TIP == 8
MIDDLE_FINGER_MCP == 9
MIDDLE_FINGER_PIP == 10
MIDDLE_FINGER_DIP == 11
MIDDLE_FINGER_TIP == 12
RING_FINGER_MCP == 13
RING_FINGER_PIP == 14
RING_FINGER_DIP == 15
RING_FINGER_TIP == 16
PINKY_MCP == 17
PINKY_PIP == 18
PINKY_DIP == 19
PINKY_TIP == 20

Point(px, py, pz) == [x |-> px, y |-> py, z |-> pz]

\* Math.pow(a, 2)
Pow2(a) == a * a

\* Math.sqrt on fixed-point numbers: the largest r with r*r <= n, found by
\* bisection (n is a product of two fixed-point numbers, so r is fixed-point).
SqrtMax == 2 * ONE
RECURSIVE SqrtBetween(_, _, _)
SqrtBetween(n, lo, hi) ==
    IF lo >= hi THEN lo
    ELSE LET mid == (lo + hi + 1) \div 2
         IN  IF mid * mid <= n THEN SqrtBetween(n, mid, hi)
                               ELSE SqrtBetween(n, lo, mid - 1)
Sqrt(n) == SqrtBetween(n, 0, SqrtMax)

distance(p1, p2) ==
    Sqrt(Pow2(p1.x - p2.x) + Pow2(p1.y - p2.y) + Pow2(p1.z - p2.z))

\* const isThumbExtended = distance(TIP, PINKY_MCP) > distance(IP, PINKY_MCP)
isThumbExtended(landmarks) ==
    distance(landmarks[THUMB_TIP], landmarks[PINKY_MCP])
        > distance(landmarks[THUMB_IP], landmarks[PINKY_MCP])

\* Variant: a tip level with its joint counts as extended (>= for >).
isFingerExtendedOrLevel(landmarks, tip, pip) ==
    distance(landmarks[tip], landmarks[WRIST])
        >= distance(landmarks[pip], landmarks[WRIST])

\* const isXExtended = distance(TIP, wrist) > distance(PIP, wrist)
isFingerExtended(landmarks, tip, pip) ==
    distance(landmarks[tip], landmarks[WRIST])
        > distance(landmarks[pip], landmarks[WRIST])

isIndexExtended(landmarks) ==
    isFingerExtended(landmarks, INDEX_FINGER_TIP, INDEX_FINGER_PIP)
isMiddleExtended(landmarks) ==
    isFingerExtended(landmarks, MIDDLE_FINGER_TIP, MIDDLE_FINGER_PIP)
isRingExtended(landmarks) ==
    isFingerExtended(landmarks, RING_FINGER_TIP, RING_FINGER_PIP)
isPinkyExtended(landmarks) ==
    isFingerExtended(landmarks, PINKY_TIP, PINKY_PIP)

Incr(b) == IF b THEN 1 ELSE 0

\* let fingerCount = 0; if (isThumbExtended) fingerCount++; ...
countFingers(landmarks) ==
    Incr(isThumbExtended(landmarks)) + Incr(isIndexExtended(landmarks))
    + Incr(isMiddleExtended(landmarks)) + Incr(isRingExtended(landmarks))
    + Incr(isPinkyExtended(landmarks))

\* Variant: any single extended digit still counts as a fist.
detectFistLoose(landmarks, fingerCount) == fingerCount <= 1

\* Variant: only a hand with no digit extended is a fist.
detectFistZeroOnly(landmarks, fingerCount) == fingerCount = 0

\* const isFist = fingerCount === 0 || (fingerCount === 1 && !isIndex... )
detectFist(landmarks, fingerCount) ==
    \/ fingerCount = 0
    \/ /\ fingerCount = 1
       /\ ~isIndexExtended(landmarks) /\ ~isMiddleExtended(landmarks)
       /\ ~isRingExtended(landmarks) /\ ~isPinkyExtended(landmarks)

analyzeHand(landmarks) ==
    LET fingerCount == countFingers(landmarks)
    IN  [ fingerCount |-> fingerCount,
          isFist      |-> detectFist(landmarks, fingerCount),
          position    |-> Point(landmarks[9].x, landmarks[9].y, landmarks[9].z),
          palmDepth   |-> distance(landmarks[WRIST], landmarks[MIDDLE_FINGER_MCP]) ]

(***************************************************************************)
(* Detector output: 21-point landmark sets.  The sets fed to the model are *)
(* schematic hands on a grid of 0.025: the wrist at (ox, 0.9, 0), the      *)
(* knuckle row palmLen above it, each digit's tip placed farther from,     *)
(* nearer to, or exactly as far from its reference point as its joint.     *)
(***************************************************************************)
GRID == ONE \div 40

Curled == "curled"
Level == "level"      \* tip exactly as far from the reference as the joint
Extended == "extended"

\* A grid point relative to the wrist (which sits at y = 0.9), as an absolute
\* fixed-point landmark.
At(ox, gx, gy, gz) == Point((ox + gx) * GRID, (36 + gy) * GRID, gz * GRID)

ThumbTip(ox, pose) ==
    CASE pose = Extended -> At(ox, -7, -5, 0)
      [] pose = Level    -> At(ox, -5, -5, -1)
      [] OTHER           -> At(ox, -1, -5, 0)

\* A finger in column col: joint (PIP) 4 above the knuckle row, the tip 8
\* above it (extended), 2 above it (curled) or mirrored across the wrist's
\* vertical (level: another point at the joint's distance).
FingerTip(ox, col, palmLen, pose) ==
    CASE pose = Extended -> At(ox, col, -palmLen - 8, 0)
      [] pose = Level    -> At(ox, -col, -palmLen - 4, 0)
      [] OTHER           -> At(ox, col, -palmLen - 2, 0)

Hand(thumb, index, middle, ring, pinky, ox, palmLen) ==
    [i \in 0..20 |->
        CASE i = WRIST             -> At(ox, 0, 0, 0)
          [] i = THUMB_CMC         -> At(ox, -3, -1, 0)
          [] i = THUMB_MCP         -> At(ox, -4, -3, 0)
          [] i = THUMB_IP          -> At(ox, -5, -5, 1)
          [] i = THUMB_TIP         -> ThumbTip(ox, thumb)
          [] i = INDEX_FINGER_MCP  -> At(ox, -2, -palmLen, 0)
          [] i = INDEX_FINGER_PIP  -> At(ox, -2, -palmLen - 4, 0)
          [] i = INDEX_FINGER_DIP  -> At(ox, -2, -palmLen - 3, 0)
          [] i = INDEX_FINGER_TIP  -> FingerTip(ox, -2, palmLen, index)
          [] i = MIDDLE_FINGER_MCP -> At(ox, 0, -palmLen, 0)
          [] i = MIDDLE_FINGER_PIP -> At(ox, 0, -palmLen - 4, 0)
          [] i = MIDDLE_FINGER_DIP -> At(ox, 0, -palmLen - 3, 0)
          [] i = MIDDLE_FINGER_TIP -> FingerTip(ox, 0, palmLen, middle)
          [] i = RING_FINGER_MCP   -> At(ox, 2, -palmLen, 0)
          [] i = RING_FINGER_PIP   -> At(ox, 2, -palmLen - 4, 0)
          [] i = RING_FINGER_DIP   -> At(ox, 2, -palmLen - 3, 0)
          [] i = RING_FINGER_TIP   -> FingerTip(ox, 2, palmLen, ring)
          [] i = PINKY_MCP         -> At(ox, 4, -palmLen, 0)
          [] i = PINKY_PIP         -> At(ox, 4, -palmLen - 4, 0)
          [] i = PINKY_DIP         -> At(ox, 4, -palmLen - 3, 0)
          [] OTHER                 -> FingerTip(ox, 4, palmLen, pinky)]

Poses == {Curled, Level, Extended}
\* Palm centre x: -0.25, 0, 0.25, 0.5, 0.75, 1, 1.25.  Palm length: 0.025 .. 0.75.
PalmXs == {-10, 0, 10, 20, 30, 40, 50}
PalmLens == {1, 2, 10, 20, 30}

\* Every landmark set the extractor is analysed on.
LandmarkSets ==
    { Hand(t, i, m, r, p, ox, len) :
        t \in Poses, i \in Poses, m \in {Curled, Extended},
        r \in {Curled, Extended}, p \in {Curled, Extended},
        ox \in PalmXs, len \in PalmLens }

(***************************************************************************)
(* types.ts: ShapeType                                                     *)
(***************************************************************************)
HEART == 0
FLOWER == 1
PORTAL == 2
HEXAGRAM == 3
TREE == 4
ShapeTypes == {HEART, FLOWER, PORTAL, HEXAGRAM, TREE}

(***************************************************************************)
(* components/HandParticleScene.tsx: constants and the shape generators    *)
(***************************************************************************)
\* 4000 in the source; the model keeps one particle (three coordinates) per
\* buffer.  The generators below evaluate their angles exactly for
\* PARTICLE_COUNT in {1, 2}, where every swept angle is a multiple of pi.
PARTICLE_COUNT == 1
\* POS_LERP_FACTOR = 0.08 = 2/25, COLOR_LERP_FACTOR = 0.05 = 1/20
POS_LERP_NUM == 2
POS_LERP_DEN == 25
COLOR_LERP_DEN == 20
\* particles.scale.lerp(..., 0.1)
SCALE_LERP_DEN == 10

\* a * b on fixed-point numbers
Mul(a, b) == RoundDiv(a * b, ONE)

\* Math.cos and Math.sin of h * pi, h an integer
CosPi(h) == IF h % 2 = 0 THEN ONE ELSE -ONE
SinPi(h) == 0

\* (i / PARTICLE_COUNT) * Math.PI * 2 * turns, in units of pi
SweepPi(i, turns) == (2 * turns * i) \div PARTICLE_COUNT

\* Outcomes of Math.random() while the shapes are baked: 0 or 0.5.
BakeDraws == {0, ONE \div 2}

heartPoint(i, u) ==
    LET t == SweepPi(i, 1)
        r == ONE \div 2 + Mul(u, ONE \div 10)
        x == 16 * Mul(Mul(SinPi(t), SinPi(t)), SinPi(t))
        y == 13 * CosPi(t) - 5 * CosPi(2 * t) - 2 * CosPi(3 * t) - CosPi(4 * t)
        z == (u - ONE \div 2) * 4
    IN  Point(Mul(x, r), Mul(y, r), z)

flowerPoint(i, u) ==
    LET k == 5
        t == SweepPi(i, 12)
        rad == 8 * CosPi(k * t) + 3 * ONE
    IN  Point(Mul(rad, CosPi(t)), Mul(rad, SinPi(t)), (u - ONE \div 2) * 3)

portalPoint(i, u) ==
    LET layer == i % 3
        angle == (2 * u) \div ONE          \* Math.random() * 2 pi, in units of pi
        rad == CASE layer = 0 -> 10 * ONE + Mul(u, (3 * ONE) \div 2)
                 [] layer = 1 -> 8 * ONE + u
                 [] OTHER     -> u * 9
        noise == (u - ONE \div 2) \div 2
    IN  Point(Mul(rad + noise, CosPi(angle)), Mul(rad + noise, SinPi(angle)),
              (u - ONE \div 2) \div 2)

hexagramPoint(i, u) ==
    LET angle == SweepPi(i, 1)
        rad == 9 * ((12 * ONE) \div 10 + Mul((3 * ONE) \div 10, SinPi(6 * angle)))
    IN  Point(Mul(rad, CosPi(angle)), Mul(rad, SinPi(angle)), (u - ONE \div 2) * 2)

treePoint(i, u) ==
    LET pct == (i * ONE) \div PARTICLE_COUNT
        height == 18
        y == 8 * ONE - pct * height
        radius == pct * 8
        angle == SweepPi(i, 10)
    IN  Point(Mul(radius, CosPi(angle)), y, Mul(radius, SinPi(angle)))

shapePoint(s, i, u) ==
    CASE s = HEART    -> heartPoint(i, u)
      [] s = FLOWER   -> flowerPoint(i, u)
      [] s = PORTAL   -> portalPoint(i, u)
      [] s = HEXAGRAM -> hexagramPoint(i, u)
      [] OTHER        -> treePoint(i, u)

\* generate(fn): a Float32Array(PARTICLE_COUNT * 3), arr[i*3 + c] = fn(i).c
\* (sequences are 1-based: element k holds arr[k-1]).
generate(s, u) ==
    [k \in 1..(PARTICLE_COUNT * 3) |->
        LET i == (k - 1) \div 3
            p == shapePoint(s, i, u)
        IN  CASE (k - 1) % 3 = 0 -> p.x
              [] (k - 1) % 3 = 1 -> p.y
              [] OTHER           -> p.z]

\* new Float32Array(PARTICLE_COUNT * 3): zero-filled
newFloat32Array == [k \in 1..(PARTICLE_COUNT * 3) |-> 0]

(***************************************************************************)
(* Buffers live in a heap, so that a copy and a shared reference differ.   *)
(***************************************************************************)
TargetBuf == "target"          \* the array made by useRef at line 24
PositionsBuf == "positions"    \* the array made by the initialization effect
ShapeBuf(s) ==
    CASE s = HEART    -> "shapes.HEART"
      [] s = FLOWER   -> "shapes.FLOWER"
      [] s = PORTAL   -> "shapes.PORTAL"
      [] s = HEXAGRAM -> "shapes.HEXAGRAM"
      [] OTHER        -> "shapes.TREE"
ShapeBufs == {ShapeBuf(s) : s \in ShapeTypes}
Buffers == {TargetBuf, PositionsBuf} \cup ShapeBufs

\* dst.set(src): copies the elements, dst stays the same array
typedArraySet(h, dst, src) == [h EXCEPT ![dst] = h[src]]

(***************************************************************************)
(* THREE.Color, as the scene uses it                                       *)
(***************************************************************************)
Color(cr, cg, cb) == [r |-> cr, g |-> cg, b |-> cb]

\* new THREE.Color(0xff0055): r = 0xff/255, g = 0, b = 0x55/255
InitialColor == Color(ONE, 0, ONE \div 3)

hue2rgb(p, q, t0) ==
    LET t1 == IF t0 < 0 THEN t0 + ONE ELSE t0
        t == IF t1 > ONE THEN t1 - ONE ELSE t1
    IN  CASE 6 * t < ONE     -> p + RoundDiv((q - p) * 6 * t, ONE)
          [] 2 * t < ONE     -> q
          [] 3 * t < 2 * ONE -> p + RoundDiv((q - p) * 6 * ((2 * ONE) \div 3 - t), ONE)
          [] OTHER           -> p

\* Color.setHSL(h, s, l): h taken modulo 1, s and l clamped to [0, 1]
setHSL(h0, s0, l0) ==
    LET h == h0 % ONE
        s == Max(0, Min(ONE, s0))
        l == Max(0, Min(ONE, l0))
        p == IF 2 * l <= ONE THEN Mul(l, ONE + s) ELSE l + s - Mul(l, s)
        q == 2 * l - p
    IN  IF s = 0 THEN Color(l, l, l)
        ELSE Color(hue2rgb(q, p, h + ONE \div 3), hue2rgb(q, p, h),
                   hue2rgb(q, p, h - ONE \div 3))

\* a += (b - a) * num/den
lerp(a, b, num, den) == a + RoundDiv((b - a) * num, den)

\* Color.lerp(color, alpha)
colorLerp(c, target, den) ==
    Color(lerp(c.r, target.r, 1, den), lerp(c.g, target.g, 1, den),
          lerp(c.b, target.b, 1, den))

(***************************************************************************)
(* HandParticleScene: the metrics effect (lines 236-275), by section       *)
(***************************************************************************)
\* Variant: the shape is selected from the finger count of a fist too.
selectShapeAnyHand(currentShape, handMetrics) ==
    CASE handMetrics.fingerCount = 1 -> HEART
      [] handMetrics.fingerCount = 2 -> FLOWER
      [] handMetrics.fingerCount = 3 -> PORTAL
      [] handMetrics.fingerCount = 4 -> HEXAGRAM
      [] handMetrics.fingerCount = 5 -> TREE
      [] OTHER                       -> currentShape

\* 1. Shape Selection: let newShape = currentShapeRef.current; if (!isFist) ...
selectShape(currentShape, handMetrics) ==
    IF ~handMetrics.isFist
    THEN CASE handMetrics.fingerCount = 1 -> HEART
           [] handMetrics.fingerCount = 2 -> FLOWER
           [] handMetrics.fingerCount = 3 -> PORTAL
           [] handMetrics.fingerCount = 4 -> HEXAGRAM
           [] handMetrics.fingerCount = 5 -> TREE
           [] OTHER                       -> currentShape
    ELSE currentShape

\* Variant: targetPositionsRef.current = shapes[newShape] (the cached array
\* itself becomes the target).
replaceTargetByReference(ref, h, newShape) ==
    [ref |-> ShapeBuf(newShape), heap |-> h]

\* Variant: shapes[newShape].set(targetPositionsRef.current) (the copy goes
\* the wrong way, into the cached array).
replaceTargetReversed(ref, h, newShape) ==
    [ref |-> ref, heap |-> typedArraySet(h, ShapeBuf(newShape), ref)]

\* Variant: the switch also copies the new shape into the current positions
\* (the particles snap to the shape).
replaceTargetSnapping(ref, h, newShape) ==
    [ref |-> ref,
     heap |-> typedArraySet(typedArraySet(h, ref, ShapeBuf(newShape)),
                            PositionsBuf, ShapeBuf(newShape))]

\* targetPositionsRef.current.set(shapes[newShape]): the ref keeps its array
replaceTarget(ref, h, newShape) ==
    [ref |-> ref, heap |-> typedArraySet(h, ref, ShapeBuf(newShape))]

\* Variant: the shape switch leaves out the copy into the target.
retargetWithoutCopy(ref, h, currentShape, newShape) == [ref |-> ref, heap |-> h]

\* if (newShape !== currentShapeRef.current) { ...set(shapes[newShape]) }
retarget(ref, h, currentShape, newShape) ==
    IF newShape # currentShape THEN replaceTarget(ref, h, newShape)
                               ELSE [ref |-> ref, heap |-> h]

\* Variant: the hue follows position.x instead of 1 - position.x.
fistHueUnflipped(handMetrics) == Max(0, Min(ONE, handMetrics.position.x))

\* 2. Color Mode: const hue = Math.max(0, Math.min(1, 1 - position.x))
fistHue(handMetrics) == Max(0, Min(ONE, ONE - handMetrics.position.x))

\* Variant: an open hand sets the target color back to the initial one.
colorModeResetting(targetColor, handMetrics) ==
    IF handMetrics.isFist THEN setHSL(fistHue(handMetrics), ONE, ONE \div 2)
                          ELSE InitialColor

\* if (isFist) targetColorRef.current.setHSL(hue, 1.0, 0.5)
colorMode(targetColor, handMetrics) ==
    IF handMetrics.isFist THEN setHSL(fistHue(handMetrics), ONE, ONE \div 2)
                          ELSE targetColor

\* Variant: the palm depth is used unclamped.
physicsScaleUnclamped(handMetrics) ==
    IF handMetrics.isFist
    THEN (4 * ONE) \div 10
    ELSE ONE + (ONE - handMetrics.palmDepth * 2)

\* 3. Physics: groupScaleRef.current = 0.4 | 1.0 + (1 - depthScale * 2)
physicsScale(handMetrics) ==
    IF handMetrics.isFist
    THEN (4 * ONE) \div 10
    ELSE LET depthScale == Max(ONE \div 20, Min(ONE \div 2, handMetrics.palmDepth))
         IN  ONE + (ONE - depthScale * 2)

\* Variant: the two spin speeds are the other way round.
physicsSpinSwapped(handMetrics) ==
    IF handMetrics.isFist THEN (2 * ONE) \div 1000 ELSE (15 * ONE) \div 100

\* rotationSpeedRef.current = 0.15 | 0.002
physicsSpin(handMetrics) ==
    IF handMetrics.isFist THEN (15 * ONE) \div 100 ELSE (2 * ONE) \div 1000

(***************************************************************************)
(* HandParticleScene: animate (lines 178-220), by section                  *)
(***************************************************************************)
\* (Math.random() - 0.5) * 0.05
jitter(u) == RoundDiv((u - ONE \div 2) * 5, 100)

\* Variant: the jitter is (Math.random() - 0.5) * 0.5.
moveCoordinateWideJitter(pos, target, u) ==
    lerp(pos, target, POS_LERP_NUM, POS_LERP_DEN) + RoundDiv((u - ONE \div 2) * 5, 10)

\* positions[ix] += (target[ix] - positions[ix]) * POS_LERP_FACTOR;
\* positions[ix] += (Math.random() - 0.5) * 0.05
moveCoordinate(pos, target, u) ==
    lerp(pos, target, POS_LERP_NUM, POS_LERP_DEN) + jitter(u)

\* for (let i = 0; i < PARTICLE_COUNT; i++) { ix, iy, iz }
moveParticles(positions, target, draws) ==
    [k \in 1..(PARTICLE_COUNT * 3) |->
        moveCoordinate(positions[k], target[k], draws[k])]

\* Variant: both angles advance by the full rotation speed.
rotateBothFull(rot, rotationSpeed) ==
    [z |-> rot.z + rotationSpeed, y |-> rot.y + rotationSpeed]

\* rotation.z += rotationSpeed; rotation.y += rotationSpeed * 0.5
rotate(rot, rotationSpeed) ==
    [z |-> rot.z + rotationSpeed, y |-> rot.y + RoundDiv(rotationSpeed, 2)]

\* Variant: the scale moves 110% of the gap (lerp factor 1.1).
scaleLerpOvershoot(sc, groupScale) == lerp(sc, groupScale, 11, SCALE_LERP_DEN)

\* particles.scale.lerp(new Vector3(g, g, g), 0.1): the three components
\* start equal and move alike, so one number stands for the vector
scaleLerp(sc, groupScale) == lerp(sc, groupScale, 1, SCALE_LERP_DEN)

\* One run of animate's body past its guard, on the values it reads.
animate(h, targetRef, currentColor, targetColor, rot, sc, rotationSpeed, groupScale, draws) ==
    [ heap     |-> [h EXCEPT ![PositionsBuf] =
                        moveParticles(h[PositionsBuf], h[targetRef], draws)],
      color    |-> colorLerp(currentColor, targetColor, COLOR_LERP_DEN),
      rotation |-> rotate(rot, rotationSpeed),
      scale    |-> scaleLerp(sc, groupScale) ]

(***************************************************************************)
(* App (types.ts): hands.onResults                                         *)
(***************************************************************************)
\* Variant: a frame without a hand calls setMetrics(null).
onResultsClearing(results, queued) ==
    IF IsSome(results) THEN Some(analyzeHand(Val(results))) ELSE None

\* if (results.multiHandLandmarks && results.multiHandLandmarks.length > 0)
\*   setMetrics(analyzeHand(results.multiHandLandmarks[0]))
\* results: None for a frame without a hand, Some(landmarks) otherwise.
\* The value is what the state update queue holds afterwards.
onResults(results, queued) ==
    IF IsSome(results) THEN Some(analyzeHand(Val(results))) ELSE queued

(***************************************************************************)
(* Bounds and inputs of the scene specification                            *)
(***************************************************************************)
MaxResults == 2     \* detector results delivered in one run
MaxFrames == 2      \* animation frames rendered in one run

\* Hands the detector reports to the running application: fists (with and
\* without a loose thumb) across the frame, and one to five fingers at
\* palm sizes below, at, between, at and above the clamp range.
SceneHands ==
    { Hand(Curled, Curled, Curled, Curled, Curled, ox, 10) : ox \in PalmXs \ {30} }
    \cup { Hand(Extended, Curled, Curled, Curled, Curled, 20, 10) }
    \cup { Hand(Curled, Extended, Curled, Curled, Curled, 20, 2),
           Hand(Extended, Extended, Curled, Curled, Curled, 20, 20),
           Hand(Curled, Extended, Extended, Extended, Curled, 20, 1),
           Hand(Curled, Extended, Extended, Extended, Extended, 20, 30),
           Hand(Extended, Extended, Extended, Extended, Extended, 20, 10) }
DetectorResults == {None} \cup {Some(lm) : lm \in SceneHands}

\* Outcomes of Math.random() in a frame (0 and 1 - 20/ONE: the two ends of
\* the jitter range); one frame draws the same outcome for every coordinate.
FrameDraws == {[k \in 1..(PARTICLE_COUNT * 3) |-> u] : u \in {0, ONE - 20}}

Graphics == {"renderer", "geometry", "sprite", "material"}

VARIABLES
    metrics,             \* App, useState<HandMetrics | null>: the rendered value
    queued,              \* the setMetrics update not rendered yet, or None
    loading,             \* App, useState(true)
    phase,               \* "created" (rendered, effects not run), "running", "unmounted"
    heap,                \* the Float32Arrays: shapes.*, target, positions
    targetPositionsRef,  \* the array targetPositionsRef.current refers to
    currentShapeRef,
    rotationSpeedRef,
    groupScaleRef,
    currentColorRef,
    targetColorRef,
    materialColor,       \* particles.material.color
    rotation,            \* particles.rotation (z, y)
    scale,               \* particles.scale
    animationId,         \* TRUE while a requested animation frame is pending
    resizeListener,      \* TRUE while handleResize is registered
    live,                \* graphics resources created and not released
    \* counters
    nResults,            \* detector results that held a hand
    nEmpty,              \* detector results that held none
    nApplied,            \* runs of the metrics effect past its null guard
    frames,              \* runs of animate's body
    \* the callbacks statement by statement (SpecSteps)
    animateFrame,        \* animate's activation: None, or Some(its position and locals)
    effectFrame,         \* the metrics effect's activation, likewise
    \* the extractor on its own (SpecAnalyze)
    sample,              \* the landmark set handed to analyzeHand
    analysis,            \* its HandMetrics, None before the call
    \* one coordinate of one particle under repeated frames (SpecSmooth)
    coord,               \* None, or Some([pos, target])
    \* App's effect: the camera and the detector's frame loop (SpecCamera)
    active,              \* let active = true; false once the cleanup ran
    stream,              \* "none" (null), "live" (acquired), "stopped" (tracks stopped)
    cameraPc,            \* where startCamera / frameLoop stands (see SpecCamera)
    animationFrameId,    \* TRUE while a requested frameLoop frame is pending
    handsClosed,         \* hands.close() was called
    permissionError,     \* useState(false)
    nSent,               \* calls of hands.send
    nLoops               \* runs of frameLoop

appVars == << metrics, queued, loading >>
targetVars == << targetPositionsRef, currentShapeRef, rotationSpeedRef,
                 groupScaleRef, targetColorRef >>
currentVars == << currentColorRef, materialColor, rotation, scale >>
lifeVars == << phase, animationId, resizeListener, live >>
countVars == << nResults, nEmpty, nApplied, frames >>
stepVars == << animateFrame, effectFrame >>
camVars == << active, stream, cameraPc, animationFrameId, handsClosed,
              permissionError, nSent, nLoops >>
avars == << sample, analysis, coord, camVars >>
sceneVars == << appVars, heap, targetVars, currentVars, lifeVars, countVars,
               stepVars >>
vars == << sceneVars, avars >>

(***************************************************************************)
(* The state after the first render of App and HandParticleScene: the refs *)
(* hold their useRef initial values, useMemo has baked the shapes, no      *)
(* effect has run.                                                         *)
(***************************************************************************)
InitScene ==
    /\ metrics = None /\ queued = None /\ loading = TRUE
    /\ phase = "created"
    /\ \E u \in BakeDraws :
         heap = [b \in Buffers |->
                   CASE b = TargetBuf          -> newFloat32Array
                     [] b = PositionsBuf       -> << >>
                     [] b = ShapeBuf(HEART)    -> generate(HEART, u)
                     [] b = ShapeBuf(FLOWER)   -> generate(FLOWER, u)
                     [] b = ShapeBuf(PORTAL)   -> generate(PORTAL, u)
                     [] b = ShapeBuf(HEXAGRAM) -> generate(HEXAGRAM, u)
                     [] OTHER                  -> generate(TREE, u)]
    /\ targetPositionsRef = TargetBuf
    /\ currentShapeRef = HEART
    /\ rotationSpeedRef = ONE \div 1000
    /\ groupScaleRef = ONE
    /\ currentColorRef = InitialColor
    /\ targetColorRef = InitialColor
    /\ materialColor = InitialColor
    /\ rotation = [z |-> 0, y |-> 0]
    /\ scale = ONE
    /\ animationId = FALSE
    /\ resizeListener = FALSE
    /\ live = {}
    /\ nResults = 0 /\ nEmpty = 0 /\ nApplied = 0 /\ frames = 0
    /\ animateFrame = None /\ effectFrame = None
    /\ active = TRUE /\ stream = "none" /\ cameraPc = "created"
    /\ animationFrameId = FALSE /\ handsClosed = FALSE
    /\ permissionError = FALSE
    /\ nSent = 0 /\ nLoops = 0

Init ==
    /\ InitScene
    /\ sample = None /\ analysis = None /\ coord = None

\* The initialization effect (lines 119-222): creates the renderer, the
\* geometry with its positions array (a copy of the heart), the sprite and
\* the material, copies the heart into the target array, registers the resize
\* handler and calls animate() once, which requests the next frame and runs
\* its body.  The metrics effect runs next with handMetrics = null and returns.
Mount ==
    /\ phase = "created"
    /\ \E draws \in FrameDraws :
         LET h0 == [heap EXCEPT ![PositionsBuf] = newFloat32Array]
             h1 == typedArraySet(h0, PositionsBuf, ShapeBuf(HEART))
             h2 == typedArraySet(h1, targetPositionsRef, ShapeBuf(HEART))
             a == animate(h2, targetPositionsRef, currentColorRef, targetColorRef,
                          rotation, scale, rotationSpeedRef, groupScaleRef, draws)
         IN  /\ heap' = a.heap
             /\ currentColorRef' = a.color
             /\ materialColor' = a.color
             /\ rotation' = a.rotation
             /\ scale' = a.scale
    /\ phase' = "running"
    /\ live' = Graphics
    /\ resizeListener' = TRUE
    /\ animationId' = TRUE
    /\ frames' = frames + 1
    /\ UNCHANGED << appVars, targetVars, nResults, nEmpty, nApplied, stepVars, avars >>

\* A requested animation frame fires: animate (lines 178-220).
Tick ==
    /\ phase = "running"
    /\ animationId
    /\ frames < MaxFrames
    /\ \E draws \in FrameDraws :
         LET a == animate(heap, targetPositionsRef, currentColorRef, targetColorRef,
                          rotation, scale, rotationSpeedRef, groupScaleRef, draws)
         IN  /\ heap' = a.heap
             /\ currentColorRef' = a.color
             /\ materialColor' = a.color
             /\ rotation' = a.rotation
             /\ scale' = a.scale
    /\ animationId' = TRUE
    /\ frames' = frames + 1
    /\ UNCHANGED << appVars, targetVars, phase, resizeListener, live,
                    nResults, nEmpty, nApplied, stepVars, avars >>

\* The detector delivers a result: hands.onResults (types.ts lines 62-71).
Delivers(delivered) ==
    /\ phase = "running"
    /\ nResults + nEmpty < MaxResults
    /\ \E results \in delivered :
         /\ queued' = onResults(results, queued)
         /\ nResults' = nResults + Incr(IsSome(results))
         /\ nEmpty' = nEmpty + Incr(~IsSome(results))
    /\ loading' = FALSE
    /\ UNCHANGED << metrics, heap, targetVars, currentVars, lifeVars,
                    nApplied, frames, stepVars, avars >>

DetectorResult == Delivers(DetectorResults)

\* React renders the queued state update and then runs the metrics effect
\* (lines 236-275) with the new handMetrics, once.
Commit ==
    /\ phase = "running"
    /\ IsSome(queued)
    /\ LET handMetrics == Val(queued)
           newShape == selectShape(currentShapeRef, handMetrics)
           t == retarget(targetPositionsRef, heap, currentShapeRef, newShape)
       IN  /\ metrics' = queued
           /\ currentShapeRef' = newShape
           /\ targetPositionsRef' = t.ref
           /\ heap' = t.heap
           /\ targetColorRef' = colorMode(targetColorRef, handMetrics)
           /\ groupScaleRef' = physicsScale(handMetrics)
           /\ rotationSpeedRef' = physicsSpin(handMetrics)
    /\ queued' = None
    /\ nApplied' = nApplied + 1
    /\ UNCHANGED << loading, currentVars, lifeVars, nResults, nEmpty, frames,
                    stepVars, avars >>

\* The cleanup of the initialization effect (lines 224-232).
Unmount ==
    /\ phase = "running"
    /\ phase' = "unmounted"
    /\ resizeListener' = FALSE
    /\ animationId' = FALSE
    /\ live' = live \ {"geometry", "material"}
    /\ UNCHANGED << appVars, heap, targetVars, currentVars, countVars,
                    stepVars, avars >>

Next == Mount \/ Tick \/ DetectorResult \/ Commit \/ Unmount

Spec == Init /\ [][Next]_vars

(***************************************************************************)
(* The feature extractor on its own: analyzeHand applied to each landmark  *)
(* set of LandmarkSets.                                                    *)
(***************************************************************************)
InitAnalyze ==
    /\ InitScene
    /\ sample \in LandmarkSets
    /\ analysis = None
    /\ coord = None

Analyze ==
    /\ analysis = None
    /\ analysis' = Some(analyzeHand(sample))
    /\ UNCHANGED << sample, coord, camVars, sceneVars >>

SpecAnalyze == InitAnalyze /\ [][Analyze]_vars


(***************************************************************************)
(* The two callbacks statement by statement.  Neither animate nor the      *)
(* metrics effect contains an await: JavaScript runs each to its end       *)
(* before the event loop starts another callback.                          *)
(***************************************************************************)
\* Variant: a callback may start while another is part-way through.
mayStartAnytime(animateOn, effectOn) == TRUE

\* Whether the event loop may start a callback: none is on the stack.
mayStart(animateOn, effectOn) == animateOn = None /\ effectOn = None

\* Hands delivered in the stepwise specification.
StepResults ==
    { None,
      Some(Hand(Curled, Curled, Curled, Curled, Curled, 10, 10)),
      Some(Hand(Curled, Extended, Extended, Extended, Curled, 20, 1)),
      Some(Hand(Extended, Extended, Extended, Extended, Extended, 20, 10)) }

StepMount == mayStart(animateFrame, effectFrame) /\ Mount
StepDetectorResult == mayStart(animateFrame, effectFrame) /\ Delivers(StepResults)
StepUnmount == mayStart(animateFrame, effectFrame) /\ Unmount

\* lines 179-184: request the next frame, pass the guard, read the refs
AnimateStart ==
    /\ mayStart(animateFrame, effectFrame)
    /\ phase = "running"
    /\ animationId
    /\ frames < MaxFrames
    /\ \E draws \in FrameDraws :
         animateFrame' = Some([pc |-> "color", draws |-> draws,
                               target |-> targetPositionsRef])
    /\ animationId' = TRUE
    /\ UNCHANGED << appVars, heap, targetVars, currentVars, phase, resizeListener,
                    live, countVars, effectFrame, avars >>

\* lines 187-190
AnimateColor ==
    /\ IsSome(animateFrame) /\ Val(animateFrame).pc = "color"
    /\ currentColorRef' = colorLerp(currentColorRef, targetColorRef, COLOR_LERP_DEN)
    /\ materialColor' = currentColorRef'
    /\ animateFrame' = Some([Val(animateFrame) EXCEPT !.pc = "move"])
    /\ UNCHANGED << appVars, heap, targetVars, rotation, scale, lifeVars,
                    countVars, effectFrame, avars >>

\* lines 193-208
AnimateMove ==
    /\ IsSome(animateFrame) /\ Val(animateFrame).pc = "move"
    /\ heap' = [heap EXCEPT ![PositionsBuf] =
                   moveParticles(heap[PositionsBuf], heap[Val(animateFrame).target],
                                 Val(animateFrame).draws)]
    /\ animateFrame' = Some([Val(animateFrame) EXCEPT !.pc = "rotate"])
    /\ UNCHANGED << appVars, targetVars, currentVars, lifeVars, countVars,
                    effectFrame, avars >>

\* lines 212-213
AnimateRotate ==
    /\ IsSome(animateFrame) /\ Val(animateFrame).pc = "rotate"
    /\ rotation' = rotate(rotation, rotationSpeedRef)
    /\ animateFrame' = Some([Val(animateFrame) EXCEPT !.pc = "scale"])
    /\ UNCHANGED << appVars, heap, targetVars, currentColorRef, materialColor,
                    scale, lifeVars, countVars, effectFrame, avars >>

\* lines 217-219: scale, render, return
AnimateScale ==
    /\ IsSome(animateFrame) /\ Val(animateFrame).pc = "scale"
    /\ scale' = scaleLerp(scale, groupScaleRef)
    /\ frames' = frames + 1
    /\ animateFrame' = None
    /\ UNCHANGED << appVars, heap, targetVars, currentColorRef, materialColor,
                    rotation, lifeVars, nResults, nEmpty, nApplied, effectFrame,
                    avars >>

\* React renders the queued update; the effect starts (line 237)
EffectStart ==
    /\ mayStart(animateFrame, effectFrame)
    /\ phase = "running"
    /\ IsSome(queued)
    /\ metrics' = queued
    /\ queued' = None
    /\ effectFrame' = Some([pc |-> "select", handMetrics |-> Val(queued),
                            newShape |-> currentShapeRef])
    /\ UNCHANGED << loading, heap, targetVars, currentVars, lifeVars, countVars,
                    animateFrame, avars >>

\* lines 240-249
EffectSelect ==
    /\ IsSome(effectFrame) /\ Val(effectFrame).pc = "select"
    /\ LET newShape == selectShape(currentShapeRef, Val(effectFrame).handMetrics)
       IN  /\ currentShapeRef' = newShape
           /\ effectFrame' = Some([Val(effectFrame) EXCEPT
                  !.newShape = newShape,
                  !.pc = IF newShape # currentShapeRef THEN "copy" ELSE "color"])
    /\ UNCHANGED << appVars, heap, targetPositionsRef, rotationSpeedRef,
                    groupScaleRef, targetColorRef, currentVars, lifeVars,
                    countVars, animateFrame, avars >>

\* line 250
EffectCopy ==
    /\ IsSome(effectFrame) /\ Val(effectFrame).pc = "copy"
    /\ LET t == replaceTarget(targetPositionsRef, heap, Val(effectFrame).newShape)
       IN  targetPositionsRef' = t.ref /\ heap' = t.heap
    /\ effectFrame' = Some([Val(effectFrame) EXCEPT !.pc = "color"])
    /\ UNCHANGED << appVars, currentShapeRef, rotationSpeedRef, groupScaleRef,
                    targetColorRef, currentVars, lifeVars, countVars,
                    animateFrame, avars >>

\* lines 255-258
EffectColor ==
    /\ IsSome(effectFrame) /\ Val(effectFrame).pc = "color"
    /\ targetColorRef' = colorMode(targetColorRef, Val(effectFrame).handMetrics)
    /\ effectFrame' = Some([Val(effectFrame) EXCEPT !.pc = "scale"])
    /\ UNCHANGED << appVars, heap, targetPositionsRef, currentShapeRef,
                    rotationSpeedRef, groupScaleRef, currentVars, lifeVars,
                    countVars, animateFrame, avars >>

\* lines 263, 268-270
EffectScale ==
    /\ IsSome(effectFrame) /\ Val(effectFrame).pc = "scale"
    /\ groupScaleRef' = physicsScale(Val(effectFrame).handMetrics)
    /\ effectFrame' = Some([Val(effectFrame) EXCEPT !.pc = "spin"])
    /\ UNCHANGED << appVars, heap, targetPositionsRef, currentShapeRef,
                    rotationSpeedRef, targetColorRef, currentVars, lifeVars,
                    countVars, animateFrame, avars >>

\* lines 264, 272: the effect returns
EffectSpin ==
    /\ IsSome(effectFrame) /\ Val(effectFrame).pc = "spin"
    /\ rotationSpeedRef' = physicsSpin(Val(effectFrame).handMetrics)
    /\ nApplied' = nApplied + 1
    /\ effectFrame' = None
    /\ UNCHANGED << appVars, heap, targetPositionsRef, currentShapeRef,
                    groupScaleRef, targetColorRef, currentVars, lifeVars,
                    nResults, nEmpty, frames, animateFrame, avars >>

StepsNext ==
    \/ StepMount \/ StepDetectorResult \/ StepUnmount
    \/ AnimateStart \/ AnimateColor \/ AnimateMove \/ AnimateRotate \/ AnimateScale
    \/ EffectStart \/ EffectSelect \/ EffectCopy \/ EffectColor \/ EffectScale
    \/ EffectSpin

SpecSteps == Init /\ [][StepsNext]_vars

(***************************************************************************)
(* One coordinate of one particle under repeated frames with the target    *)
(* held: the body of animate's particle loop (lines 199-206) iterated.     *)
(* Frames keep coming while the page is shown (animate requests the next   *)
(* one first thing), hence the weak fairness.                              *)
(***************************************************************************)
\* Target and start coordinates: values the baked shapes hold, every start
\* at least 2.0 from either target (a particle of one shape right after the
\* target became another shape).
SmoothTargets == {0, 8 * ONE}
SmoothStarts == {-2 * ONE, (5 * ONE) \div 2, (108 * ONE) \div 10}
\* Outcomes of Math.random(): both ends of its range and the middle.
SmoothDraws == {0, ONE \div 2, ONE - 20}

InitSmooth ==
    /\ InitScene
    /\ sample = None /\ analysis = None
    /\ coord \in {Some([pos |-> p, target |-> t]) :
                    p \in SmoothStarts, t \in SmoothTargets}

Smooth ==
    /\ IsSome(coord)
    /\ \E u \in SmoothDraws :
         coord' = Some([Val(coord) EXCEPT
                           !.pos = moveCoordinate(Val(coord).pos, Val(coord).target, u)])
    /\ UNCHANGED << sample, analysis, camVars, sceneVars >>

SpecSmooth == InitSmooth /\ [][Smooth]_vars /\ WF_vars(Smooth)

(***************************************************************************)
(* App's effect (types.ts lines 38-139): startCamera and frameLoop are     *)
(* async functions, so the cleanup can run at each of their awaits         *)
(* (getUserMedia, the loadedmetadata promise, hands.send) and while a      *)
(* requested frame is pending.  cameraPc is the await the functions stand  *)
(* at: "created" (effect not run), "acquiring", "metadata", "sending",     *)
(* "waiting" (frame requested), "done" (returned for good).  The Hands     *)
(* script is taken to be loaded and the video element to be rendered.      *)
(***************************************************************************)
MaxLoops == 3       \* runs of frameLoop in one run

\* One run of frameLoop up to its await or its return (lines 105-115);
\* ready: videoRef.current.readyState >= 2.
frameLoop(ready) ==
    /\ nLoops' = nLoops + 1
    /\ IF ~active
       THEN cameraPc' = "done" /\ animationFrameId' = FALSE /\ nSent' = nSent
       ELSE IF ready
            THEN cameraPc' = "sending" /\ animationFrameId' = FALSE
                 /\ nSent' = nSent + 1
            ELSE cameraPc' = "waiting" /\ animationFrameId' = TRUE
                 /\ nSent' = nSent

\* The effect runs (lines 38-126): hands is created, startCamera is called
\* and runs to its first await, getUserMedia.
AppMount ==
    /\ cameraPc = "created"
    /\ cameraPc' = "acquiring"
    /\ active' = TRUE
    /\ UNCHANGED << stream, animationFrameId, handsClosed, permissionError,
                    nSent, nLoops, sample, analysis, coord, sceneVars >>

\* getUserMedia resolves (lines 83-102): stream is assigned; if still active
\* the video gets the stream and startCamera awaits the metadata.
Acquired ==
    /\ cameraPc = "acquiring"
    /\ stream' = "live"
    /\ cameraPc' = IF active THEN "metadata" ELSE "done"
    /\ UNCHANGED << active, animationFrameId, handsClosed, permissionError,
                    nSent, nLoops, sample, analysis, coord, sceneVars >>

\* getUserMedia rejects: the catch block (lines 119-123).
AcquireFailed ==
    /\ cameraPc = "acquiring"
    /\ cameraPc' = "done"
    /\ permissionError' = TRUE
    /\ loading' = FALSE
    /\ UNCHANGED << active, stream, animationFrameId, handsClosed, nSent, nLoops,
                    sample, analysis, coord, metrics, queued, heap, targetVars,
                    currentVars, lifeVars, countVars, stepVars >>

\* The metadata promise resolves: frameLoop() is called (line 117).
MetadataLoaded ==
    /\ cameraPc = "metadata"
    /\ \E ready \in BOOLEAN : frameLoop(ready)
    /\ UNCHANGED << active, stream, handsClosed, permissionError,
                    sample, analysis, coord, sceneVars >>

\* hands.send settles (lines 109-114).  The detector has called onResults
\* with its result (after hands.close() it may not have); frameLoop goes on
\* to request the next frame if still active.
SendSettles ==
    /\ cameraPc = "sending"
    /\ \/ \E results \in StepResults :
            /\ queued' = onResults(results, queued)
            /\ loading' = FALSE
            /\ nResults' = nResults + Incr(IsSome(results))
            /\ nEmpty' = nEmpty + Incr(~IsSome(results))
       \/ /\ handsClosed
          /\ UNCHANGED << queued, loading, nResults, nEmpty >>
    /\ cameraPc' = IF active THEN "waiting" ELSE "done"
    /\ animationFrameId' = active
    /\ UNCHANGED << active, stream, handsClosed, permissionError, nSent, nLoops,
                    sample, analysis, coord, metrics, heap, targetVars,
                    currentVars, lifeVars, nApplied, frames, stepVars >>

\* The requested frame fires: frameLoop runs again.
FrameLoopFrame ==
    /\ cameraPc = "waiting"
    /\ animationFrameId
    /\ nLoops < MaxLoops
    /\ \E ready \in BOOLEAN : frameLoop(ready)
    /\ UNCHANGED << active, stream, handsClosed, permissionError,
                    sample, analysis, coord, sceneVars >>

\* The effect's cleanup (lines 129-138).
AppCleanup ==
    /\ cameraPc # "created"
    /\ active
    /\ active' = FALSE
    /\ animationFrameId' = FALSE
    /\ cameraPc' = IF cameraPc = "waiting" THEN "done" ELSE cameraPc
    /\ handsClosed' = TRUE
    /\ stream' = IF stream = "live" THEN "stopped" ELSE stream
    /\ UNCHANGED << permissionError, nSent, nLoops, sample, analysis, coord,
                    sceneVars >>

CameraNext ==
    \/ AppMount \/ Acquired \/ AcquireFailed \/ MetadataLoaded \/ SendSettles
    \/ FrameLoopFrame \/ AppCleanup

SpecCamera == Init /\ [][CameraNext]_vars

(***************************************************************************)
(* Properties                                                              *)
(***************************************************************************)
ShapeOrder == << HEART, FLOWER, PORTAL, HEXAGRAM, TREE >>
TargetArray == heap[targetPositionsRef]
FistOf(m) == IsSome(m) /\ Val(m).isFist
OpenOf(m) == IsSome(m) /\ ~Val(m).isFist

\* C1: every run of the metrics effect on an open hand with fingerCount k in
\* 1..5 leaves the current shape at the k-th of HEART, FLOWER, PORTAL,
\* HEXAGRAM, TREE; every run on a fist leaves the current shape and the target
\* positions buffer as they were, whatever its fingerCount.
C1_FingerCountSelectsShape ==
    [][ nApplied' = nApplied + 1 =>
          LET m == Val(metrics')
          IN  /\ (~m.isFist /\ m.fingerCount \in 1..5)
                    => currentShapeRef' = ShapeOrder[m.fingerCount]
              /\ m.isFist
                    => /\ currentShapeRef' = currentShapeRef
                       /\ targetPositionsRef' = targetPositionsRef
                       /\ heap'[targetPositionsRef'] = heap[targetPositionsRef] ]_vars

\* A fist with a loose thumb (fingerCount 1) was applied after five fingers
\* had selected the tree: the tree is still the shape and the target.
C1_Witness ==
    /\ FistOf(metrics) /\ Val(metrics).fingerCount = 1
    /\ nApplied >= 2
    /\ currentShapeRef = TREE
    /\ TargetArray = heap[ShapeBuf(TREE)]

\* The target positions buffer holds the values of one baked shape, in an
\* array of its own.
TargetIsBakedCopy ==
    /\ \E s \in ShapeTypes : TargetArray = heap[ShapeBuf(s)]
    /\ targetPositionsRef \notin ShapeBufs \cup {PositionsBuf}

\* C2 as stated: in every state from the creation of the component on, the
\* target positions buffer is a copy of one of the five baked shapes.
C2_TargetAlwaysBakedCopy == TargetIsBakedCopy

\* C2 amended: in every state once the initialization effect has run, the
\* target positions buffer is element-wise equal to one of the five baked
\* shapes and is an array distinct from the cached ones and from the current
\* positions.
C2_TargetBakedCopyOnceInitialized ==
    phase # "created" => TargetIsBakedCopy

\* Frames have run after an update switched the target to the portal.
C2_Witness ==
    /\ phase = "running" /\ frames >= 2 /\ nApplied >= 1
    /\ currentShapeRef = PORTAL
    /\ TargetArray = heap[ShapeBuf(PORTAL)]
    /\ heap[PositionsBuf] # TargetArray

\* Every write of the last metrics update is in place.
UpdateWritten ==
    /\ TargetArray = heap[ShapeBuf(currentShapeRef)]
    /\ IsSome(metrics) =>
         LET m == Val(metrics)
         IN  /\ currentShapeRef = selectShape(currentShapeRef, m)
             /\ targetColorRef = colorMode(targetColorRef, m)
             /\ groupScaleRef = physicsScale(m)
             /\ rotationSpeedRef = physicsSpin(m)

\* C3: animate and the metrics effect are never part-way through at the same
\* time, and while animate runs, the target it reads is one whole shape and
\* every write of the last metrics update (shape, target positions, target
\* color, target scale, rotation speed) is in place.
C3_CallbacksRunToCompletion ==
    /\ ~(IsSome(animateFrame) /\ IsSome(effectFrame))
    /\ IsSome(animateFrame) =>
         /\ Val(animateFrame).target = targetPositionsRef
         /\ UpdateWritten

\* animate is about to move the particles, after an update that switched the
\* shape to the portal.
C3_Witness ==
    /\ IsSome(animateFrame) /\ Val(animateFrame).pc = "move"
    /\ nApplied >= 1
    /\ currentShapeRef = PORTAL

\* C4 as stated: every detector result that held a hand has had its own run
\* of the metrics effect, except the one result that may still be queued;
\* none is dropped or merged with a later one.
C4_EveryResultRunsMapperOnce ==
    nApplied + Incr(IsSome(queued)) = nResults

InitialTargets ==
    /\ currentShapeRef = HEART
    /\ TargetArray = heap[ShapeBuf(HEART)]
    /\ targetColorRef = InitialColor
    /\ groupScaleRef = ONE
    /\ rotationSpeedRef = ONE \div 1000

\* C5: a detector result without a hand changes neither the stored metrics
\* (rendered or queued) nor any target; while the scene runs a next frame is
\* always requested, whether or not metrics arrive; and as long as no hand
\* was ever reported the targets are the initial ones.
C5_EmptyResultKeepsState ==
    /\ [][ nEmpty' # nEmpty =>
             /\ metrics' = metrics /\ queued' = queued
             /\ UNCHANGED targetVars
             /\ heap'[targetPositionsRef] = heap[targetPositionsRef] ]_vars
    /\ [](phase = "running" => animationId)
    /\ []((phase = "running" /\ nResults = 0) => InitialTargets)

\* Only results without a hand have arrived, frames went on, and the targets
\* are the initial ones.
C5_Witness ==
    /\ nEmpty >= 2 /\ nResults = 0 /\ frames >= 2
    /\ metrics = None
    /\ animationId
    /\ InitialTargets

\* C6 as stated: after shutdown no animation frame is pending and every
\* graphics resource created by the initialization is released.
C6_ShutdownReleasesEverything ==
    phase = "unmounted" => (~animationId /\ live = {})

\* The jitter amplitude 0.025, and the distance the claim's epsilon stands
\* for: the amplitude (one unit of rounding added) over the smoothing factor.
JitterBound == (25 * ONE) \div 1000
Epsilon == ((JitterBound + 1) * POS_LERP_DEN) \div POS_LERP_NUM + 1
Gap(c) == Abs(Val(c).pos - Val(c).target)

\* C7: with the target held, each frame leaves a coordinate no farther from
\* its target than 92% of its distance before plus the jitter bound, and
\* eventually every coordinate is, and stays, within Epsilon of its target,
\* from any start.
C7_SmoothingConverges ==
    /\ [][ IsSome(coord) =>
             Gap(coord') * POS_LERP_DEN
               <= Gap(coord) * (POS_LERP_DEN - POS_LERP_NUM)
                  + (JitterBound + 1) * POS_LERP_DEN ]_vars
    /\ <>[](IsSome(coord) => Gap(coord) <= Epsilon)

\* A coordinate that started at least 2.8 from its target 8.0 is within
\* Epsilon of it.
C7_Witness ==
    /\ IsSome(coord)
    /\ Val(coord).target = 8 * ONE
    /\ Gap(coord) <= Epsilon

\* Squared Euclidean distance, exact.
DistSq(p, q) == Pow2(p.x - q.x) + Pow2(p.y - q.y) + Pow2(p.z - q.z)
Farther(lm, tip, joint, ref) == DistSq(lm[tip], lm[ref]) > DistSq(lm[joint], lm[ref])
AsFar(lm, tip, joint, ref) == DistSq(lm[tip], lm[ref]) = DistSq(lm[joint], lm[ref])
ThumbOut(lm) == Farther(lm, THUMB_TIP, THUMB_IP, PINKY_MCP)
Fingers ==
    { << INDEX_FINGER_TIP, INDEX_FINGER_PIP >>, << MIDDLE_FINGER_TIP, MIDDLE_FINGER_PIP >>,
      << RING_FINGER_TIP, RING_FINGER_PIP >>, << PINKY_TIP, PINKY_PIP >> }
FingersOut(lm) == { f \in Fingers : Farther(lm, f[1], f[2], WRIST) }
DigitsOut(lm) == Cardinality(FingersOut(lm)) + Incr(ThumbOut(lm))

\* C8: analyzeHand returns isFist exactly when fingerCount is 0, or is 1 with
\* none of the four fingers extended; no digit extended gives a fist with
\* count 0, the thumb alone a fist with count 1, exactly one finger no fist.
C8_FistIffCurledFingers ==
    IsSome(analysis) =>
        LET m == Val(analysis)
        IN  /\ m.isFist <=> \/ m.fingerCount = 0
                            \/ m.fingerCount = 1 /\ FingersOut(sample) = {}
            /\ DigitsOut(sample) = 0 => (m.isFist /\ m.fingerCount = 0)
            /\ (ThumbOut(sample) /\ FingersOut(sample) = {})
                  => (m.isFist /\ m.fingerCount = 1)
            /\ Cardinality(FingersOut(sample)) = 1 => ~m.isFist

\* The thumb alone is extended: a fist with fingerCount 1.
C8_Witness ==
    /\ IsSome(analysis)
    /\ ThumbOut(sample) /\ FingersOut(sample) = {}
    /\ Val(analysis).isFist /\ Val(analysis).fingerCount = 1

\* C9: fingerCount is the number of extended digits, in 0..5, a finger being
\* extended iff its tip is strictly farther from the wrist than its PIP joint
\* and the thumb iff its tip is strictly farther from the pinky base than its
\* IP joint; equal distances do not count.
C9_CountsExtendedDigits ==
    IsSome(analysis) =>
        /\ Val(analysis).fingerCount = DigitsOut(sample)
        /\ Val(analysis).fingerCount \in 0..5

\* Thumb and index tips are exactly as far out as their joints, the other
\* three fingers are extended: the count is 3.
C9_Witness ==
    /\ IsSome(analysis)
    /\ AsFar(sample, THUMB_TIP, THUMB_IP, PINKY_MCP)
    /\ sample[THUMB_TIP] # sample[THUMB_IP]
    /\ AsFar(sample, INDEX_FINGER_TIP, INDEX_FINGER_PIP, WRIST)
    /\ sample[INDEX_FINGER_TIP] # sample[INDEX_FINGER_PIP]
    /\ Val(analysis).fingerCount = 3

\* The colour of hue h at full saturation and mid lightness, by the sector of
\* the hue wheel h falls in (hue 1 is hue 0: the wheel closes).
HueColor(h) ==
    LET k == ((6 * h) \div ONE) % 6
        f == (6 * h) % ONE
    IN  CASE k = 0 -> Color(ONE, f, 0)
          [] k = 1 -> Color(ONE - f, ONE, 0)
          [] k = 2 -> Color(0, ONE, f)
          [] k = 3 -> Color(0, ONE - f, ONE)
          [] k = 4 -> Color(f, 0, ONE)
          [] OTHER -> Color(ONE, 0, ONE - f)
Clamp01(v) == Max(0, Min(ONE, v))
Red == Color(ONE, 0, 0)

\* C10: after a metrics update with a fist the target color is the colour of
\* hue clamp(1 - position.x, 0, 1) at full saturation and mid lightness:
\* x = 0 gives hue 1 and x = 1 hue 0 (both red), x = 0.5 hue 0.5 (cyan), and
\* x outside [0, 1] the clamped hue.
C10_FistHueFromPalmX ==
    FistOf(metrics) =>
        LET x == Val(metrics).position.x
        IN  /\ targetColorRef = HueColor(Clamp01(ONE - x))
            /\ x = 0 => targetColorRef = HueColor(ONE)
            /\ x = ONE => targetColorRef = HueColor(0)
            /\ x = ONE \div 2 => targetColorRef = Color(0, ONE, ONE)
            /\ x < 0 => targetColorRef = HueColor(0)
            /\ x > ONE => targetColorRef = HueColor(ONE)
            /\ HueColor(0) = Red /\ HueColor(ONE) = Red

\* A fist at x = 0.25 was applied: the target is hue 0.75 (violet).
C10_Witness ==
    /\ FistOf(metrics)
    /\ Val(metrics).position.x = ONE \div 4
    /\ targetColorRef = Color(ONE \div 2, 0, ONE)

\* The open-hand target scale for a palm depth, as the claim states it.
OpenScale(d) == ONE + (ONE - 2 * Max(ONE \div 20, Min(ONE \div 2, d)))
\* Palm depths from 0 to 1 in steps of 0.025.
Depths == {k * GRID : k \in 0..40}

\* Of two palm depths the deeper one never gives the larger target scale.
OpenScaleNonIncreasing ==
    \A d1 \in Depths, d2 \in Depths :
        d1 <= d2 =>
           physicsScale([isFist |-> FALSE, palmDepth |-> d1])
             >= physicsScale([isFist |-> FALSE, palmDepth |-> d2])

C12_PhysicsFromFistFlag ==
    /\ FistOf(metrics) => /\ groupScaleRef = (4 * ONE) \div 10
                          /\ rotationSpeedRef = (15 * ONE) \div 100
    /\ OpenOf(metrics) => rotationSpeedRef = (2 * ONE) \div 1000

\* After a fist, an open hand showing the shape already current (one finger,
\* the heart) was applied: no shape change, and the speed is 0.002.
C12_Witness ==
    /\ OpenOf(metrics) /\ Val(metrics).fingerCount = 1
    /\ nApplied >= 2
    /\ targetColorRef # InitialColor
    /\ currentShapeRef = HEART
    /\ rotationSpeedRef = (2 * ONE) \div 1000

\* The five cached sets are the ones one bake produced, each of N points.
ShapesAsBaked ==
    \E u \in BakeDraws :
        \A s \in ShapeTypes :
            /\ heap[ShapeBuf(s)] = generate(s, u)
            /\ Len(heap[ShapeBuf(s)]) = PARTICLE_COUNT * 3

\* C13: no step (metrics update, animation tick, mount, unmount) changes any
\* of the five cached sets, each is in every state the N-point set its bake
\* produced, and whenever a metrics update leaves a shape current the target
\* holds that shape's cached values (so a switch back restores the values of
\* the first time).
C13_ShapesBakedOnce ==
    /\ [][ \A s \in ShapeTypes : heap'[ShapeBuf(s)] = heap[ShapeBuf(s)] ]_vars
    /\ []ShapesAsBaked
    /\ [][ nApplied' = nApplied + 1
             => heap'[targetPositionsRef'] = heap[ShapeBuf(currentShapeRef')] ]_vars

\* The heart is current again after another shape was the target for a
\* frame: the particles have moved more than 0.1 off the heart (farther than
\* frames toward the heart alone take them), the target holds the heart's
\* baked values.
C13_Witness ==
    /\ nApplied >= 2
    /\ currentShapeRef = HEART
    /\ TargetArray = heap[ShapeBuf(HEART)]
    /\ \E k \in 1..(PARTICLE_COUNT * 3) :
         Abs(heap[PositionsBuf][k] - heap[ShapeBuf(HEART)][k]) > ONE \div 10

\* C14 as stated: the jitter of one frame is no part of the position later
\* frames compute.  While the target is the heart the particles started on
\* and no update has arrived, the smoothed position is the target itself, so
\* after any number of frames each coordinate would be the target plus one
\* frame's jitter: within the jitter amplitude of the target.
C14_JitterLeavesNoTrace ==
    (phase = "running" /\ nApplied = 0) =>
        \A k \in 1..(PARTICLE_COUNT * 3) :
            Abs(heap[PositionsBuf][k] - TargetArray[k]) <= JitterBound + 1

\* C15: every animation frame advances rotation.z by the rotation speed and
\* rotation.y by half of it; no step decreases either angle, the rotation
\* speed is never negative, and rotation.y is always exactly half of
\* rotation.z.
C15_RotationAccumulates ==
    /\ [][ frames' = frames + 1 =>
             /\ rotation'.z = rotation.z + rotationSpeedRef
             /\ 2 * rotation'.y = 2 * rotation.y + rotationSpeedRef ]_vars
    /\ [][ rotation'.z >= rotation.z /\ rotation'.y >= rotation.y ]_vars
    /\ [](rotationSpeedRef >= 0)
    /\ [](2 * rotation.y = rotation.z)

\* A frame at the initial speed 0.001 and a frame at the fist's 0.15 have
\* run: the angles are 0.151 and 0.0755.
C15_Witness ==
    /\ frames >= 2
    /\ rotation.z = ONE \div 1000 + (15 * ONE) \div 100
    /\ 2 * rotation.y = rotation.z

\* C16: in every state once the initialization effect has run, the target
\* positions buffer holds the cached set of the current shape and of no
\* other shape.
C16_ShapeAndTargetInSync ==
    phase # "created" =>
        \A s \in ShapeTypes :
            (TargetArray = heap[ShapeBuf(s)]) <=> (s = currentShapeRef)

\* Two updates have switched the shape, last to the hexagram, with a frame
\* run: the target is the hexagram's set.
C16_Witness ==
    /\ nApplied >= 2 /\ frames >= 2
    /\ currentShapeRef = HEXAGRAM
    /\ TargetArray = heap[ShapeBuf(HEXAGRAM)]
    /\ TargetArray # heap[ShapeBuf(HEART)]

\* C17: for the metrics analyzeHand returns, an open hand (isFist false) has
\* fingerCount in 1..5 and at least one non-thumb finger extended, so from
\* every current shape the mapper selects the shape indexed by fingerCount;
\* it selects the heart only for exactly one extended finger with the thumb
\* not extended; and a lone extended thumb is a fist, which leaves every
\* current shape as it is.
C17_OpenHandAlwaysSelects ==
    IsSome(analysis) =>
        LET m == Val(analysis)
        IN  /\ ~m.isFist =>
                 /\ m.fingerCount \in 1..5
                 /\ FingersOut(sample) # {}
                 /\ \A s \in ShapeTypes :
                      selectShape(s, m) = ShapeOrder[m.fingerCount]
            /\ (~m.isFist /\ \E s \in ShapeTypes \ {HEART} : selectShape(s, m) = HEART)
                 => (Cardinality(FingersOut(sample)) = 1 /\ ~ThumbOut(sample))
            /\ (ThumbOut(sample) /\ FingersOut(sample) = {})
                 => \A s \in ShapeTypes : selectShape(s, m) = s

\* An open hand with exactly the ring finger extended: from the tree the
\* mapper selects the heart.
C17_Witness ==
    /\ IsSome(analysis)
    /\ ~Val(analysis).isFist
    /\ FingersOut(sample) = {<< RING_FINGER_TIP, RING_FINGER_PIP >>}
    /\ ~ThumbOut(sample)
    /\ selectShape(TREE, Val(analysis)) = HEART

\* C18: an animation frame of the running scene changes neither the target
\* positions, the current shape, the target color, the target scale nor the
\* rotation speed; a metrics update changes neither the current positions,
\* the current color, the rendered scale nor the rotation angles.
C18_TickAndUpdateWriteDisjoint ==
    /\ [][ (phase = "running" /\ frames' = frames + 1) =>
             /\ UNCHANGED targetVars
             /\ heap'[targetPositionsRef] = heap[targetPositionsRef] ]_vars
    /\ [][ nApplied' = nApplied + 1 =>
             /\ UNCHANGED currentVars
             /\ heap'[PositionsBuf] = heap[PositionsBuf] ]_vars

\* An update has switched the target to the tree and no frame has run
\* since: the particles are still within 0.1 of the heart they were on.
C18_Witness ==
    /\ nApplied >= 1
    /\ currentShapeRef = TREE
    /\ TargetArray = heap[ShapeBuf(TREE)]
    /\ \A k \in 1..(PARTICLE_COUNT * 3) :
         Abs(heap[PositionsBuf][k] - heap[ShapeBuf(HEART)][k]) <= ONE \div 10

\* C19: a metrics update with an open hand leaves the target color as it
\* was, and the target color changes in no step other than a metrics update
\* with a fist.
C19_ColorChangesOnlyOnFist ==
    /\ [][ (nApplied' = nApplied + 1 /\ OpenOf(metrics'))
             => targetColorRef' = targetColorRef ]_vars
    /\ [][ targetColorRef' # targetColorRef
             => (nApplied' = nApplied + 1 /\ FistOf(metrics')) ]_vars

\* After a fist at x = 0.5 set the target color to cyan, an open hand has
\* switched the shape: the target color is still cyan.
C19_Witness ==
    /\ nApplied >= 2
    /\ OpenOf(metrics)
    /\ currentShapeRef # HEART
    /\ targetColorRef = Color(0, ONE, ONE)

\* C20: in every state the rotation speed is 0.001, 0.002 or 0.15, the
\* target scale is 0.4 or within [1.0, 1.9] (so positive), and the rendered
\* scale is within [0.4, 1.9]; every frame moves the rendered scale a tenth
\* of its gap toward the target scale.
C20_PhysicsTargetsInRange ==
    /\ [](rotationSpeedRef \in {ONE \div 1000, (2 * ONE) \div 1000, (15 * ONE) \div 100})
    /\ [](\/ groupScaleRef = (4 * ONE) \div 10
          \/ (groupScaleRef >= ONE /\ groupScaleRef <= (19 * ONE) \div 10))
    /\ [](groupScaleRef > 0)
    /\ [](scale >= (4 * ONE) \div 10 /\ scale <= (19 * ONE) \div 10)
    /\ [][ frames' = frames + 1 =>
             scale' = scale + RoundDiv(groupScaleRef - scale, 10) ]_vars

\* After a fist the rendered scale has come down a tenth of the way from 1
\* toward 0.4.
C20_Witness ==
    /\ frames >= 2
    /\ groupScaleRef = (4 * ONE) \div 10
    /\ scale = (94 * ONE) \div 100

\* No part of startCamera or frameLoop is still to run.
CameraQuiet == cameraPc = "done"

\* C21 as stated: once the cleanup has run no frame is sent to the detector
\* and no frameLoop frame is pending or requested, and when the camera code
\* has come to rest after the cleanup no acquired stream is left live,
\* whether it was acquired before or after the cleanup.
C21_CleanupStopsPipeline ==
    /\ [][ ~active => nSent' = nSent ]_vars
    /\ [](~active => ~animationFrameId)
    /\ []((~active /\ CameraQuiet) => stream # "live")

=============================================================================
